---- MODULE Spec2Model ----
(***************************************************************************)
(* Model of the crypto-price-tracker pipeline                               *)
(*   fetch -> add_enhanced_columns -> process_crypto_data ->               *)
(*   get_top_gainers / get_top_losers / generate_market_summary -> save    *)
(* in its two source variants: the utils package driven by main.py         *)
(* (variant "utils") and the single-file crypto_tracker_top.py (variant    *)
(* "top").                                                                 *)
(*                                                                         *)
(* Python values are tagged records, dicts are functions whose DOMAIN is   *)
(* the set of keys present, lists are sequences.  Percentages are counted  *)
(* in whole units (float(x) of an int keeps its value); strings are        *)
(* sequences of one-character strings so that float() and upper() are      *)
(* computed character by character.                                        *)
(*                                                                         *)
(* A caller other than main() may also hand process_crypto_data its own    *)
(* output again and call the Ranker a second time with another limit.      *)
(***************************************************************************)
EXTENDS Integers, Sequences, FiniteSets, TLC

(* ------------------------------ bounds -------------------------------- *)
\* longest batch the supplier hands over
MaxLen == 3
\* largest limit a direct caller passes to the Ranker
MaxLimit == 2

(* --------------------------- Python values ---------------------------- *)
\* t: the type; n / d: the number, an exact fraction; s: the characters
Null == [t |-> "null", n |-> 0, s |-> <<>>, d |-> 1]
Num(x) == [t |-> "num", n |-> x, s |-> <<>>, d |-> 1]
Str(x) == [t |-> "str", n |-> 0, s |-> x, d |-> 1]
\* float('inf'), the sort key of a record without rank
Inf == [t |-> "inf", n |-> 0, s |-> <<>>, d |-> 1]
\* marker used only while building a dict: the key is left out
Absent == [t |-> "absent", n |-> 0, s |-> <<>>, d |-> 1]

\* bool(v): None, 0, 0.0 and '' are falsy
Truthy(v) ==
  CASE v.t = "null" -> FALSE
    [] v.t = "num" -> v.n # 0
    [] v.t = "str" -> v.s # <<>>
    [] OTHER -> TRUE

EmptyDict == [k \in {} |-> Null]
\* d.get(k, default)
Get(d, k, default) == IF k \in DOMAIN d THEN d[k] ELSE default
\* d[k] = v
SetItem(d, k, v) == [x \in (DOMAIN d) \cup {k} |-> IF x = k THEN v ELSE d[x]]
\* a dict literal given as a function that may map keys to Absent
Dict(f) == [k \in {x \in DOMAIN f : f[x] # Absent} |-> f[k]]

(* ------------------------------ strings ------------------------------- *)
Digits == <<"0", "1", "2", "3", "4", "5", "6", "7", "8", "9">>
IsDigit(c) == \E i \in 1..10 : Digits[i] = c
DigitVal(c) == (CHOOSE i \in 1..10 : Digits[i] = c) - 1

\* str.strip() at both ends (blank is the only whitespace of the alphabet)
RECURSIVE LStrip(_)
LStrip(s) == IF s # <<>> /\ Head(s) = " " THEN LStrip(Tail(s)) ELSE s
RECURSIVE RStrip(_)
RStrip(s) ==
  IF s # <<>> /\ s[Len(s)] = " " THEN RStrip(SubSeq(s, 1, Len(s) - 1)) ELSE s
Strip(s) == RStrip(LStrip(s))

RECURSIVE DigitsVal(_, _)
DigitsVal(s, acc) ==
  IF s = <<>> THEN acc ELSE DigitsVal(Tail(s), acc * 10 + DigitVal(Head(s)))

\* the part of a numeric literal after an optional sign
Unsigned(s) == IF s # <<>> /\ Head(s) \in {"-", "+"} THEN Tail(s) ELSE s
\* float(str) succeeds: blanks stripped, optional sign, then digits only
\* (fractions and exponents are outside the alphabet used here)
ParseOk(s) ==
  LET u == Unsigned(Strip(s))
  IN u # <<>> /\ \A i \in 1..Len(u) : IsDigit(u[i])
ParseVal(s) ==
  LET b == Strip(s)
      m == DigitsVal(Unsigned(b), 0)
  IN IF Head(b) = "-" THEN 0 - m ELSE m

\* str.swapcase in place of str.upper
UpperChar_SwapCase(c) ==
  CASE c = "a" -> "A" [] c = "b" -> "B" [] c = "c" -> "C" [] c = "t" -> "T"
    [] c = "A" -> "a" [] c = "B" -> "b" [] c = "C" -> "c" [] c = "T" -> "t"
    [] OTHER -> c
UpperChar(c) ==
  CASE c = "a" -> "A" [] c = "b" -> "B" [] c = "c" -> "C" [] c = "t" -> "T"
    [] OTHER -> c
\* str.upper()
Upper(s) == [i \in 1..Len(s) |-> UpperChar(s[i])]

(* ------------------------- supplier's records ------------------------- *)
\* the keys of a RawRecord other than rank, percentage and symbol: the
\* string-valued ones and the numeric ones
TextKeys == {"id", "name", "image", "last_updated"}
NumberKeys == {"current_price", "market_cap", "total_volume", "ath"}
RawKeys ==
  TextKeys \cup NumberKeys
    \cup {"symbol", "market_cap_rank", "price_change_percentage_24h"}

\* the value the i-th record of a batch carries under key k when present
FullValue(i, k) ==
  CASE k = "id" -> Str(<<"c", Digits[i + 1]>>)
    [] k = "name" -> Str(<<"n", Digits[i + 1]>>)
    [] k = "image" -> Str(<<"i">>)
    [] k = "last_updated" -> Str(<<"u">>)
    [] k = "symbol" -> Str(<<"b", "t", "c">>)
    [] k = "current_price" -> Num(7)
    [] k = "market_cap" -> Num(9)
    [] k = "total_volume" -> Num(4)
    [] k = "ath" -> Num(8)
    [] OTHER -> Null

\* how complete a record is: every key present; the plain keys null; the
\* plain keys and the symbol absent; only the symbol null
Shapes == {"full", "nulls", "absent", "symnull"}

\* the record at position i with rank r, percentage p (Absent leaves the key
\* out) and shape sh
MkCoin(i, r, p, sh) ==
  Dict([k \in RawKeys |->
    CASE k = "market_cap_rank" -> r
      [] k = "price_change_percentage_24h" -> p
      [] k = "symbol" ->
           IF sh = "symnull" THEN Null
           ELSE IF sh = "absent" THEN Absent ELSE FullValue(i, k)
      [] OTHER ->
           IF sh = "nulls" THEN Null
           ELSE IF sh = "absent" THEN Absent ELSE FullValue(i, k)])

Profile(r, p, sh) == [rank |-> r, pct |-> p, shape |-> sh]

\* complete records whose ranks vary and collide: a gain at every rank and
\* a loss at ranks 1 and 2
Ranked ==
  {Profile(r, Num(5), "full") : r \in {Null, Num(0), Num(1), Num(2)}}
    \cup {Profile(r, Num(-3), "full") : r \in {Num(1), Num(2)}}
\* complete records of one rank whose percentages vary in sign and size
Movers ==
  {Profile(Num(1), p, "full") : p \in {Num(-3), Num(-1), Num(0), Num(2), Num(5)}}
\* complete records whose percentage is missing, null or a string
Malformed ==
  {Profile(Num(1), p, "full") :
     p \in {Absent, Null, Num(5), Str(<<>>), Str(<<"a", "b", "c">>),
            Str(<<"5">>), Str(<<"-", "3">>)}}
\* records with missing or null keys
Sparse ==
  {Profile(IF sh = "absent" THEN Absent ELSE IF sh = "nulls" THEN Null ELSE Num(1),
           Num(2), sh) : sh \in Shapes}
Classes == {Ranked, Movers, Malformed, Sparse}

\* the batch of the records the profiles f[1], ..., f[n] describe
Batch(f) == [i \in DOMAIN f |-> MkCoin(i, f[i].rank, f[i].pct, f[i].shape)]

\* a record that carries only its id, its rank and its percentage
ScenarioCoin(id, r, p) ==
  Dict([k \in {"id", "market_cap_rank", "price_change_percentage_24h"} |->
    CASE k = "id" -> Str(id) [] k = "market_cap_rank" -> r [] OTHER -> p])
\* the batch btc (rank 1, 5.2 %), eth (rank 2, null), xrp (no rank, -3.1 %),
\* the percentages counted in tenths
Scenario ==
  <<ScenarioCoin(<<"b", "t", "c">>, Num(1), Num(52)),
    ScenarioCoin(<<"e", "t", "h">>, Num(2), Null),
    ScenarioCoin(<<"x", "r", "p">>, Null, Num(-31))>>

(* ------------------------------- state -------------------------------- *)
VARIABLES
  variant,      \* "utils" (utils/*.py with main.py) or "top" (crypto_tracker_top.py)
  supplied,     \* what fetch_crypto_data returns: [ok, data]; ok = FALSE is None
  caller,       \* "main", or "direct" for a caller of the stage functions
  pc,           \* position in the pipeline
  raw_data,     \* the fetched list; add_enhanced_columns updates its dicts in place
  processed,    \* the list process_crypto_data returned
  order,        \* order[j] = input position of processed[j]
  top_gainers,  \* list returned by get_top_gainers: references into processed
  top_losers,   \* list returned by get_top_losers: references into processed
  given_limit,  \* the limit the Ranker calls are given
  summary,      \* dict returned by generate_market_summary
  saved,        \* the four lists handed to save_all_datasets
  renormalized, \* what process_crypto_data made of its own output
  again,        \* a later Ranker call on the same processed list
  err           \* the exception that ended the run and the function that raised it

vars ==
  <<variant, supplied, caller, pc, raw_data, processed, order, top_gainers,
    top_losers, given_limit, summary, saved, renormalized, again, err>>

\* limit=10 of get_top_gainers / get_top_losers
DefaultLimit == 10
\* datetime.now().strftime('%d-%m-%Y'), one value for the whole run
Today == Str(<<"0", "1", "-", "1", "1">>)

NoErr == [type |-> "none", in |-> "none"]
Raised(type, in) == [type |-> type, in |-> in]

NoSave == [done |-> FALSE, raw |-> <<>>, processed |-> <<>>,
           gainers |-> <<>>, losers |-> <<>>]
\* no second call of process_crypto_data, no later Ranker call
NoRenormalized == [done |-> FALSE, data |-> <<>>, err |-> "none"]
NoAgain == [fn |-> "none", limit |-> 0, top |-> <<>>]

Init ==
  /\ variant \in {"utils", "top"}
  /\ \/ supplied = [ok |-> FALSE, data |-> <<>>]
     \/ \E C \in Classes, n \in 0..MaxLen :
          \E f \in [1..n -> C] : supplied = [ok |-> TRUE, data |-> Batch(f)]
     \/ supplied = [ok |-> TRUE, data |-> Scenario]
  /\ caller = "none"
  /\ pc = "start"
  /\ raw_data = <<>>
  /\ processed = <<>>
  /\ order = <<>>
  /\ top_gainers = <<>>
  /\ top_losers = <<>>
  /\ given_limit = 0
  /\ summary = EmptyDict
  /\ saved = NoSave
  /\ renormalized = NoRenormalized
  /\ again = NoAgain
  /\ err = NoErr

(* ------------------------------ Enhancer ------------------------------ *)
\* float(v) of a number or a numeric string
FloatOf(v) == IF v.t = "str" THEN Num(ParseVal(v.s)) ELSE Num(v.n)
\* float(v) raises ValueError
FloatFails(v) == v.t = "str" /\ ~ParseOk(v.s)

UP == Str(<<"U", "P">>)
DOWN == Str(<<"D", "O", "W", "N">>)
\* the sign test written >= 0
ChangeSymbol_ZeroIsUp(x) == IF x >= 0 THEN UP ELSE DOWN
\* "UP" if x > 0 else "DOWN"
ChangeSymbol(x) == IF x > 0 THEN UP ELSE DOWN

\* body of the loop of utils.processor.add_enhanced_columns for one coin:
\* the coin as the body leaves it and the exception it raised
EnhanceCoinUtils(coin) ==
  LET price_change == Get(coin, "price_change_percentage_24h", Null)
      c1 == SetItem(coin, "date", Today)
  IN IF Truthy(price_change) /\ FloatFails(price_change)
     THEN [coin |-> c1, err |-> "ValueError"]
     ELSE LET f == IF Truthy(price_change) THEN FloatOf(price_change) ELSE Num(0)
              c2 == SetItem(c1, "price_change_24h", f)
          IN [coin |-> SetItem(c2, "change_symbol", ChangeSymbol(f.n)),
              err |-> "none"]

\* body of the loop of crypto_tracker_top.add_enhanced_columns for one coin;
\* its sign test reads the percentage itself, and str > int raises TypeError
EnhanceCoinTop(coin) ==
  LET c1 == SetItem(coin, "date", Today)
      price_change == Get(coin, "price_change_percentage_24h", Null)
  IN IF price_change = Null
     THEN [coin |-> SetItem(SetItem(c1, "price_change_24h", Num(0)),
                            "change_symbol", DOWN),
           err |-> "none"]
     ELSE IF FloatFails(price_change)
     THEN [coin |-> c1, err |-> "ValueError"]
     ELSE LET c2 == SetItem(c1, "price_change_24h", FloatOf(price_change))
          IN IF price_change.t = "str"
             THEN [coin |-> c2, err |-> "TypeError"]
             ELSE [coin |-> SetItem(c2, "change_symbol",
                                    ChangeSymbol(price_change.n)),
                   err |-> "none"]

EnhanceCoin(v, coin) ==
  IF v = "utils" THEN EnhanceCoinUtils(coin) ELSE EnhanceCoinTop(coin)

\* the for loop of add_enhanced_columns from position i on: the list as the
\* call leaves it (its dicts are updated in place) and the exception raised
RECURSIVE EnhanceFrom(_, _, _)
EnhanceFrom(v, data, i) ==
  IF i > Len(data) THEN [data |-> data, err |-> "none"]
  ELSE LET r == EnhanceCoin(v, data[i])
           d == [data EXCEPT ![i] = r.coin]
       IN IF r.err # "none" THEN [data |-> d, err |-> r.err]
          ELSE EnhanceFrom(v, d, i + 1)

add_enhanced_columns(v, data) == EnhanceFrom(v, data, 1)

(* ----------------------------- Normalizer ----------------------------- *)
\* coin.get('symbol', '').upper() raises AttributeError: the value has no upper()
UpperFails(coin) == Get(coin, "symbol", Str(<<>>)).t # "str"

\* the value process_crypto_data stores under 'price_change_24h'
PriceChange24h(v, coin) ==
  LET price_change == Get(coin, "price_change_24h", Num(0))
  IN IF v = "top" /\ price_change = Null THEN Num(0) ELSE price_change

\* the dict literal process_crypto_data appends for one coin
ProjectCoin(v, coin) ==
  [k \in {"id", "rank", "name", "symbol", "current_price", "price_change_24h",
          "change_symbol", "market_cap", "volume_24h", "ath", "image", "date",
          "last_updated"} |->
    CASE k = "id" -> Get(coin, "id", Str(<<>>))
      [] k = "rank" -> Get(coin, "market_cap_rank", Null)
      [] k = "name" -> Get(coin, "name", Str(<<>>))
      [] k = "symbol" -> Str(Upper(Get(coin, "symbol", Str(<<>>)).s))
      [] k = "current_price" -> Get(coin, "current_price", Null)
      [] k = "price_change_24h" -> PriceChange24h(v, coin)
      [] k = "change_symbol" -> Get(coin, "change_symbol", DOWN)
      [] k = "market_cap" -> Get(coin, "market_cap", Null)
      [] k = "volume_24h" -> Get(coin, "total_volume", Null)
      [] k = "ath" -> Get(coin, "ath", Null)
      [] k = "image" -> Get(coin, "image", Str(<<>>))
      [] k = "date" -> Get(coin, "date", Str(<<>>))
      [] OTHER -> Get(coin, "last_updated", Str(<<>>))]

\* the sort key written "x['rank'] or 0": a record without rank sorts first
RankKey_NullIsZero(v, rank) == IF Truthy(rank) THEN rank ELSE Num(0)
\* the sort key: utils tests the rank's truth value, top tests "is not None"
RankKey(v, rank) ==
  IF v = "utils" THEN (IF Truthy(rank) THEN rank ELSE Inf)
  ELSE (IF rank # Null THEN rank ELSE Inf)

\* a < b on sort keys: numbers and float('inf')
KeyLess(a, b) == a.t = "num" /\ (b.t = "inf" \/ (b.t = "num" /\ a.n < b.n))
KeyGreater(a, b) == KeyLess(b, a)

\* a sort that is not stable: equal elements come out in reverse
StableOrder_TiesReversed(keys, reverse) ==
  LET Before(a, b) == IF reverse THEN KeyGreater(a, b) ELSE KeyLess(a, b)
      pos(i) ==
        1 + Cardinality({j \in 1..Len(keys) :
                           \/ Before(keys[j], keys[i])
                           \/ (~Before(keys[i], keys[j]) /\ j > i)})
  IN [p \in 1..Len(keys) |-> CHOOSE i \in 1..Len(keys) : pos(i) = p]

\* list.sort / sorted are stable, with reverse=True too: the element at
\* position i moves behind the elements that sort before it and the equal
\* ones that precede it.
\* Result: order[p] = position in keys of the p-th element of the sorted list
StableOrder(keys, reverse) ==
  LET Before(a, b) == IF reverse THEN KeyGreater(a, b) ELSE KeyLess(a, b)
      pos(i) ==
        1 + Cardinality({j \in 1..Len(keys) :
                           \/ Before(keys[j], keys[i])
                           \/ (~Before(keys[i], keys[j]) /\ j < i)})
  IN [p \in 1..Len(keys) |-> CHOOSE i \in 1..Len(keys) : pos(i) = p]

\* the loop, the sort and the numbering of process_crypto_data
SortedAndNumbered(v, data) ==
  LET projected == [i \in 1..Len(data) |-> ProjectCoin(v, data[i])]
      keys == [i \in 1..Len(data) |-> RankKey(v, projected[i]["rank"])]
      ord == StableOrder(keys, FALSE)
  IN [data |-> [j \in 1..Len(data) |->
                  SetItem(projected[ord[j]], "number", Num(j))],
      order |-> ord,
      err |-> "none"]

\* process_crypto_data reading data[0] before its loop: IndexError on []
process_crypto_data_NeedsFirst(v, data) ==
  IF data = <<>>
  THEN [data |-> <<>>, order |-> <<>>, err |-> "IndexError"]
  ELSE IF \E i \in 1..Len(data) : UpperFails(data[i])
  THEN [data |-> <<>>, order |-> <<>>, err |-> "AttributeError"]
  ELSE SortedAndNumbered(v, data)

\* process_crypto_data: the new list, the input position of each of its
\* records, and the exception raised (nothing is returned then)
process_crypto_data(v, data) ==
  IF \E i \in 1..Len(data) : UpperFails(data[i])
  THEN [data |-> <<>>, order |-> <<>>, err |-> "AttributeError"]
  ELSE SortedAndNumbered(v, data)

(* ------------------------------- Ranker ------------------------------- *)
Min(a, b) == IF a < b THEN a ELSE b

IsGainer(c) == c["price_change_24h"].n > 0
\* the loser test written <= 0
IsLoser_OrZero(c) == c["price_change_24h"].n <= 0
IsLoser(c) == c["price_change_24h"].n < 0
IsNeutral(c) == c["price_change_24h"].n = 0
\* the test of a list comprehension: price_change_24h > 0, < 0 or == 0
Keep(cmp, c) ==
  CASE cmp = ">" -> IsGainer(c) [] cmp = "<" -> IsLoser(c) [] OTHER -> IsNeutral(c)

\* [c for c in data if c['price_change_24h'] cmp 0] as the positions kept,
\* in list order
RECURSIVE Filter(_, _, _)
Filter(data, cmp, i) ==
  IF i > Len(data) THEN <<>>
  ELSE (IF Keep(cmp, data[i]) THEN <<i>> ELSE <<>>) \o Filter(data, cmp, i + 1)

\* sorted(refs, key=price_change_24h, reverse=...)[:limit], for limit >= 0
TopBy(data, refs, reverse, limit) ==
  LET keys == [k \in 1..Len(refs) |-> data[refs[k]]["price_change_24h"]]
      ord == StableOrder(keys, reverse)
      sorted == [k \in 1..Len(refs) |-> refs[ord[k]]]
  IN SubSeq(sorted, 1, Min(limit, Len(sorted)))

\* enumerate(top) without the start 1: the first rank is 0
Enumerate_FromZero(data, top, field) ==
  [i \in 1..Len(data) |->
     IF \E k \in 1..Len(top) : top[k] = i
     THEN SetItem(data[i], field, Num((CHOOSE k \in 1..Len(top) : top[k] = i) - 1))
     ELSE data[i]]

\* for i, coin in enumerate(top, 1): coin[field] = i  -- the dicts of top are
\* the dicts of data
Enumerate(data, top, field) ==
  [i \in 1..Len(data) |->
     IF \E k \in 1..Len(top) : top[k] = i
     THEN SetItem(data[i], field, Num(CHOOSE k \in 1..Len(top) : top[k] = i))
     ELSE data[i]]

\* get_top_gainers with sorted(...)[::-1] in place of reverse=True
get_top_gainers_SortThenReverse(data, limit) ==
  LET refs == Filter(data, ">", 1)
      asc == TopBy(data, refs, FALSE, Len(refs))
      desc == [k \in 1..Len(asc) |-> asc[Len(asc) + 1 - k]]
      top == SubSeq(desc, 1, Min(limit, Len(desc)))
  IN [top |-> top, data |-> Enumerate(data, top, "gainer_rank")]

\* get_top_gainers without reverse=True
get_top_gainers_Ascending(data, limit) ==
  LET top == TopBy(data, Filter(data, ">", 1), FALSE, limit)
  IN [top |-> top, data |-> Enumerate(data, top, "gainer_rank")]

\* get_top_gainers: the returned list (positions in data of its dicts) and
\* data as the call leaves it
get_top_gainers(data, limit) ==
  LET top == TopBy(data, Filter(data, ">", 1), TRUE, limit)
  IN [top |-> top, data |-> Enumerate(data, top, "gainer_rank")]

get_top_losers(data, limit) ==
  LET top == TopBy(data, Filter(data, "<", 1), FALSE, limit)
  IN [top |-> top, data |-> Enumerate(data, top, "loser_rank")]

\* the dicts a list of references stands for
Deref(data, refs) == [k \in 1..Len(refs) |-> data[refs[k]]]

(* ----------------------------- Summarizer ----------------------------- *)
RECURSIVE GCD(_, _)
GCD(a, b) == IF b = 0 THEN a ELSE GCD(b, a % b)
\* a / b * 100 as an exact fraction in lowest terms
Percentage(a, b) ==
  LET g == GCD(a * 100, b)
  IN [t |-> "num", n |-> (a * 100) \div g, s |-> <<>>, d |-> b \div g]

\* a scan that replaces its candidate on ">=": the last maximum
FirstMax_LastWins(data) ==
  CHOOSE i \in 1..Len(data) :
    /\ \A j \in 1..Len(data) :
         ~KeyLess(data[i]["price_change_24h"], data[j]["price_change_24h"])
    /\ \A j \in (i + 1)..Len(data) :
         KeyLess(data[j]["price_change_24h"], data[i]["price_change_24h"])
\* a scan that replaces its candidate on "<=": the last minimum
FirstMin_LastWins(data) ==
  CHOOSE i \in 1..Len(data) :
    /\ \A j \in 1..Len(data) :
         ~KeyLess(data[j]["price_change_24h"], data[i]["price_change_24h"])
    /\ \A j \in (i + 1)..Len(data) :
         KeyLess(data[i]["price_change_24h"], data[j]["price_change_24h"])
\* max(data, key=price_change_24h) / min(...): the first extreme element
FirstMax(data) ==
  CHOOSE i \in 1..Len(data) :
    /\ \A j \in 1..Len(data) :
         ~KeyLess(data[i]["price_change_24h"], data[j]["price_change_24h"])
    /\ \A j \in 1..(i - 1) :
         KeyLess(data[j]["price_change_24h"], data[i]["price_change_24h"])
FirstMin(data) ==
  CHOOSE i \in 1..Len(data) :
    /\ \A j \in 1..Len(data) :
         ~KeyLess(data[j]["price_change_24h"], data[i]["price_change_24h"])
    /\ \A j \in 1..(i - 1) :
         KeyLess(data[i]["price_change_24h"], data[j]["price_change_24h"])

Ref(i) == [t |-> "ref", n |-> i, s |-> <<>>, d |-> 1]

SummaryKeys ==
  {"total_coins", "gainers_count", "losers_count", "neutral_count",
   "gainers_percentage", "losers_percentage", "top_gainer", "top_loser"}

\* the dict generate_market_summary builds for a non-empty list
SummaryOf(data) ==
  LET total == Len(data)
      gainers == Filter(data, ">", 1)
      losers == Filter(data, "<", 1)
      neutral == Filter(data, "==", 1)
  IN [k \in SummaryKeys |->
       CASE k = "total_coins" -> Num(total)
         [] k = "gainers_count" -> Num(Len(gainers))
         [] k = "losers_count" -> Num(Len(losers))
         [] k = "neutral_count" -> Num(Len(neutral))
         [] k = "gainers_percentage" -> Percentage(Len(gainers), total)
         [] k = "losers_percentage" -> Percentage(Len(losers), total)
         [] k = "top_gainer" -> Ref(FirstMax(data))
         [] OTHER -> Ref(FirstMin(data))]

\* generate_market_summary whose early return hands back a zero-filled
\* summary instead of {}
generate_market_summary_ZeroFilled(data) ==
  IF data = <<>>
  THEN [k \in SummaryKeys |-> IF k \in {"top_gainer", "top_loser"} THEN Null
                              ELSE Num(0)]
  ELSE SummaryOf(data)

\* generate_market_summary: "if not data: return {}"
generate_market_summary(data) ==
  IF data = <<>> THEN EmptyDict ELSE SummaryOf(data)

(* ------------------------------ display ------------------------------- *)
\* the display functions format rank and name with a width (f"{rank:<5}",
\* f"{name:<20}", coin['name'][:18]): None raises TypeError.  They show the
\* first 10 processed records and the two subsets
DisplayFails(data) ==
  \E i \in 1..Min(DefaultLimit, Len(data)) :
    data[i]["rank"] = Null \/ data[i]["name"] = Null

(* ------------------------------ actions ------------------------------- *)
\* main(): fetch_crypto_data() and the test "if not raw_data: return"
MainFetch ==
  /\ pc = "start"
  /\ caller' = "main"
  /\ raw_data' = supplied.data
  /\ pc' = IF ~supplied.ok \/ supplied.data = <<>> THEN "exited" ELSE "fetched"
  /\ UNCHANGED <<renormalized, again,
                 variant, supplied, processed, order, top_gainers, top_losers,
                 given_limit, summary, saved, err>>

\* a caller other than main() takes the supplier's batch to the stages itself
DirectCall ==
  /\ pc = "start"
  /\ supplied.ok
  /\ caller' = "direct"
  /\ raw_data' = supplied.data
  /\ pc' = "fetched"
  /\ UNCHANGED <<renormalized, again,
                 variant, supplied, processed, order, top_gainers, top_losers,
                 given_limit, summary, saved, err>>

\* enhanced = add_enhanced_columns(raw_data)
AddEnhancedColumns ==
  /\ pc = "fetched"
  /\ LET r == add_enhanced_columns(variant, raw_data)
     IN /\ raw_data' = r.data
        /\ err' = IF r.err = "none" THEN NoErr
                  ELSE Raised(r.err, "add_enhanced_columns")
        /\ pc' = IF r.err = "none" THEN "enhanced" ELSE "raised"
  /\ UNCHANGED <<renormalized, again,
                 variant, supplied, caller, processed, order, top_gainers,
                 top_losers, given_limit, summary, saved>>

\* processed = process_crypto_data(enhanced)
ProcessCryptoData ==
  /\ pc = "enhanced"
  /\ LET r == process_crypto_data(variant, raw_data)
     IN /\ processed' = r.data
        /\ order' = r.order
        /\ err' = IF r.err = "none" THEN NoErr
                  ELSE Raised(r.err, "process_crypto_data")
        /\ pc' = IF r.err = "none" THEN "processed" ELSE "raised"
  /\ UNCHANGED <<renormalized, again,
                 variant, supplied, caller, raw_data, top_gainers, top_losers,
                 given_limit, summary, saved>>

\* the limit a call can be given: main() passes none (utils) or 10 (top)
LimitsOf(c) == IF c = "main" THEN {DefaultLimit} ELSE 0..MaxLimit

\* top_gainers = get_top_gainers(processed[, limit])
GetTopGainers ==
  /\ pc = "processed"
  /\ \E L \in LimitsOf(caller) :
       LET r == get_top_gainers(processed, L)
       IN /\ top_gainers' = r.top
          /\ processed' = r.data
          /\ given_limit' = L
  /\ pc' = "gainers"
  /\ UNCHANGED <<renormalized, again,
                 variant, supplied, caller, raw_data, order, top_losers,
                 summary, saved, err>>

\* top_losers = get_top_losers(processed[, limit]), with the limit the
\* gainers were asked with (main() gives both calls the same one)
GetTopLosers ==
  /\ pc = "gainers"
  /\ LET r == get_top_losers(processed, given_limit)
     IN /\ top_losers' = r.top
        /\ processed' = r.data
  /\ pc' = "losers"
  /\ UNCHANGED <<renormalized, again,
                 variant, supplied, caller, raw_data, order, top_gainers,
                 given_limit, summary, saved, err>>

\* summary = generate_market_summary(processed)
GenerateMarketSummary ==
  /\ pc = "losers"
  /\ summary' = generate_market_summary(processed)
  /\ pc' = "summarized"
  /\ UNCHANGED <<renormalized, again,
                 variant, supplied, caller, raw_data, processed, order,
                 top_gainers, top_losers, given_limit, saved, err>>

\* main(): the four display_* calls
Display ==
  /\ pc = "summarized"
  /\ caller = "main"
  /\ err' = IF DisplayFails(processed) THEN Raised("TypeError", "display")
            ELSE NoErr
  /\ pc' = IF DisplayFails(processed) THEN "raised" ELSE "displayed"
  /\ UNCHANGED <<renormalized, again,
                 variant, supplied, caller, raw_data, processed, order,
                 top_gainers, top_losers, given_limit, summary, saved>>

\* save_all_datasets(enhanced, processed, top_gainers, top_losers)
SaveAllDatasets ==
  /\ \/ pc = "displayed"
     \/ pc = "summarized" /\ caller = "direct"
  /\ saved' = [done |-> TRUE, raw |-> raw_data, processed |-> processed,
               gainers |-> Deref(processed, top_gainers),
               losers |-> Deref(processed, top_losers)]
  /\ pc' = "saved"
  /\ UNCHANGED <<renormalized, again,
                 variant, supplied, caller, raw_data, processed, order,
                 top_gainers, top_losers, given_limit, summary, err>>

\* a record of process_crypto_data's output under the keys the function
\* reads: it wrote market_cap_rank as rank and total_volume as volume_24h
Reproject(coin) ==
  [k \in ((DOMAIN coin) \ {"rank", "volume_24h"})
           \cup {"market_cap_rank", "total_volume"} |->
    CASE k = "market_cap_rank" -> coin["rank"]
      [] k = "total_volume" -> coin["volume_24h"]
      [] OTHER -> coin[k]]

\* a direct caller hands the list process_crypto_data returned back to it:
\* process_crypto_data([reprojected(c) for c in processed])
Renormalize ==
  /\ pc = "processed"
  /\ caller = "direct"
  /\ LET r == process_crypto_data(variant,
                [i \in 1..Len(processed) |-> Reproject(processed[i])])
     IN renormalized' = [done |-> TRUE, data |-> r.data, err |-> r.err]
  /\ pc' = "renormalized"
  /\ UNCHANGED <<again, variant, supplied, caller, raw_data, processed, order,
                 top_gainers, top_losers, given_limit, summary, saved, err>>

\* a direct caller calls get_top_gainers on the same processed list once
\* more, with another limit; top_gainers is still the earlier list
GetTopGainersAgain ==
  /\ pc = "losers"
  /\ caller = "direct"
  /\ \E L \in LimitsOf(caller) \ {given_limit} :
       LET r == get_top_gainers(processed, L)
       IN /\ again' = [fn |-> "get_top_gainers", limit |-> L, top |-> r.top]
          /\ processed' = r.data
  /\ pc' = "reranked"
  /\ UNCHANGED <<renormalized, variant, supplied, caller, raw_data, order,
                 top_gainers, top_losers, given_limit, summary, saved, err>>

\* the same for get_top_losers
GetTopLosersAgain ==
  /\ pc = "losers"
  /\ caller = "direct"
  /\ \E L \in LimitsOf(caller) \ {given_limit} :
       LET r == get_top_losers(processed, L)
       IN /\ again' = [fn |-> "get_top_losers", limit |-> L, top |-> r.top]
          /\ processed' = r.data
  /\ pc' = "reranked"
  /\ UNCHANGED <<renormalized, variant, supplied, caller, raw_data, order,
                 top_gainers, top_losers, given_limit, summary, saved, err>>

Next ==
  \/ MainFetch
  \/ DirectCall
  \/ AddEnhancedColumns
  \/ ProcessCryptoData
  \/ Renormalize
  \/ GetTopGainers
  \/ GetTopLosers
  \/ GetTopGainersAgain
  \/ GetTopLosersAgain
  \/ GenerateMarketSummary
  \/ Display
  \/ SaveAllDatasets

Spec == Init /\ [][Next]_vars

(* ------------------------- stages of a run ---------------------------- *)
\* add_enhanced_columns was called (and returned or raised)
EnhancerActed == pc \notin {"start", "fetched", "exited"}
EnhancerReturned == EnhancerActed /\ err.in # "add_enhanced_columns"
\* process_crypto_data was called
NormalizerActed == EnhancerReturned /\ pc # "enhanced"
NormalizerReturned == NormalizerActed /\ err.in # "process_crypto_data"
GainersReturned == NormalizerReturned /\ pc \notin {"processed", "renormalized"}
LosersReturned == GainersReturned /\ pc # "gainers"
SummaryReturned == LosersReturned /\ pc \notin {"losers", "reranked"}
\* process_crypto_data returned from a call on its own output
Renormalized == renormalized.done /\ renormalized.err = "none"
\* a later call of get_top_gainers / get_top_losers returned
GainersAgain == again.fn = "get_top_gainers"
LosersAgain == again.fn = "get_top_losers"

\* the percentage the supplier gave for record i; Null when null or absent
SuppliedPct(i) == Get(supplied.data[i], "price_change_percentage_24h", Null)
Change(c) == c["price_change_24h"].n

(* ------------------------------- C1 ----------------------------------- *)
\* C1: the list process_crypto_data returns is sorted ascending by rank for
\* every integer rank, each record without rank comes after each record
\* with one, and the record at 0-based position i carries number i + 1.
C1_SortedByRankNullsLast ==
  NormalizerReturned =>
    /\ \A i, j \in 1..Len(processed) :
         i < j =>
           LET a == processed[i]["rank"]
               b == processed[j]["rank"]
           IN /\ a = Null => b = Null
              /\ (a.t = "num" /\ b.t = "num") => a.n <= b.n
    /\ \A i \in 1..Len(processed) : processed[i]["number"] = Num(i)

(* ------------------------------- C2 ----------------------------------- *)
\* C2: after add_enhanced_columns, a record whose percentage is null or
\* absent has price_change_24h 0.0 and change_symbol DOWN; a record whose
\* percentage is a number p has price_change_24h p and change_symbol UP
\* exactly when p > 0, DOWN otherwise.
C2_EnhancedColumns ==
  EnhancerReturned =>
    \A i \in 1..Len(raw_data) :
      LET p == SuppliedPct(i)
          c == raw_data[i]
      IN /\ p = Null =>
              c["price_change_24h"] = Num(0) /\ c["change_symbol"] = DOWN
         /\ p.t = "num" =>
              /\ c["price_change_24h"] = Num(p.n)
              /\ c["change_symbol"] \in {UP, DOWN}
              /\ c["change_symbol"] = UP <=> p.n > 0

\* C2 witness: an enhanced batch with an absent, a null and a positive
\* percentage
C2_Witness ==
  /\ pc = "enhanced"
  /\ \E i, j, k \in 1..Len(raw_data) :
       /\ "price_change_percentage_24h" \notin DOMAIN supplied.data[i]
       /\ "price_change_percentage_24h" \in DOMAIN supplied.data[j]
       /\ SuppliedPct(j) = Null
       /\ SuppliedPct(k).t = "num" /\ SuppliedPct(k).n > 0
       /\ raw_data[k]["change_symbol"] = UP

(* ------------------------------- C3 ----------------------------------- *)
Gainers == {i \in 1..Len(processed) : Change(processed[i]) > 0}
Losers == {i \in 1..Len(processed) : Change(processed[i]) < 0}
Distinct(refs) == \A a, b \in 1..Len(refs) : a # b => refs[a] # refs[b]

\* C3: for a limit L >= 0 get_top_gainers returns min(L, g) distinct
\* records, all with price_change_24h > 0, in descending order, none
\* smaller than a gainer left out; get_top_losers returns min(L, l) distinct
\* records, all < 0, in ascending order, none larger than a loser left out.
C3_TopSubsets ==
  /\ GainersReturned =>
       /\ Len(top_gainers) = Min(given_limit, Cardinality(Gainers))
       /\ Distinct(top_gainers)
       /\ \A a \in 1..Len(top_gainers) : top_gainers[a] \in Gainers
       /\ \A a, b \in 1..Len(top_gainers) :
            a < b => Change(processed[top_gainers[a]])
                       >= Change(processed[top_gainers[b]])
       /\ \A i \in Gainers :
            (\A a \in 1..Len(top_gainers) : top_gainers[a] # i) =>
              \A a \in 1..Len(top_gainers) :
                Change(processed[top_gainers[a]]) >= Change(processed[i])
  /\ LosersReturned =>
       /\ Len(top_losers) = Min(given_limit, Cardinality(Losers))
       /\ Distinct(top_losers)
       /\ \A a \in 1..Len(top_losers) : top_losers[a] \in Losers
       /\ \A a, b \in 1..Len(top_losers) :
            a < b => Change(processed[top_losers[a]])
                       <= Change(processed[top_losers[b]])
       /\ \A i \in Losers :
            (\A a \in 1..Len(top_losers) : top_losers[a] # i) =>
              \A a \in 1..Len(top_losers) :
                Change(processed[top_losers[a]]) <= Change(processed[i])

\* C3 witness: limit 1 cuts two gainers of different size down to the
\* larger one, and the only loser is returned
C3_Witness ==
  /\ pc = "losers"
  /\ given_limit = 1
  /\ \E i, j \in Gainers : Change(processed[i]) > Change(processed[j])
  /\ Len(top_gainers) = 1
  /\ Cardinality(Losers) = 1
  /\ Len(top_losers) = 1

Unparseable(p) == p.t = "str" /\ ~ParseOk(p.s)

\* C5: when a record of the batch carries a percentage that is present but
\* not a parseable number (the empty string included), add_enhanced_columns
\* fails, and no such record gets a price_change_24h.
C5_MalformedPercentageFails ==
  (EnhancerActed /\ \E i \in 1..Len(supplied.data) : Unparseable(SuppliedPct(i))) =>
    /\ pc = "raised"
    /\ err.in = "add_enhanced_columns"
    /\ \A i \in 1..Len(raw_data) :
         Unparseable(SuppliedPct(i)) => "price_change_24h" \notin DOMAIN raw_data[i]

(* ------------------------------- C6 ----------------------------------- *)
\* C6: when add_enhanced_columns fails, no record of the batch has been
\* enhanced: the caller's records are as the supplier delivered them.
C6_NoPartialEnhancement ==
  (pc = "raised" /\ err.in = "add_enhanced_columns") => raw_data = supplied.data

(* ------------------------------- C7 ----------------------------------- *)
Missing(coin, k) == k \notin DOMAIN coin \/ coin[k] = Null

\* C7: process_crypto_data does not raise on absent or null fields, and an
\* absent or null id, name, symbol, image or last_updated becomes the empty
\* string, an absent or null rank, current_price, market_cap, total_volume
\* or ath becomes null.
C7_MissingFieldsDefaulted ==
  NormalizerActed =>
    /\ err.in # "process_crypto_data"
    /\ \A j \in 1..Len(processed) :
         LET coin == raw_data[order[j]]
         IN /\ \A k \in {"id", "name", "symbol", "image", "last_updated"} :
                 Missing(coin, k) => processed[j][k] = Str(<<>>)
            /\ Missing(coin, "market_cap_rank") => processed[j]["rank"] = Null
            /\ Missing(coin, "total_volume") => processed[j]["volume_24h"] = Null
            /\ \A k \in {"current_price", "market_cap", "ath"} :
                 Missing(coin, k) => processed[j][k] = Null

(* ------------------------------- C8 ----------------------------------- *)
\* C8: after the Ranker and the Summarizer have been called, the list
\* process_crypto_data returned is as it was returned, and that list is
\* what save_all_datasets receives.
C8_NormalizedUnchanged ==
  /\ GainersReturned => processed = process_crypto_data(variant, raw_data).data
  /\ saved.done => saved.processed = process_crypto_data(variant, raw_data).data

(* ------------------------------- C9 ----------------------------------- *)
\* C9 as stated: the summary of the empty list carries gainers_percentage
\* and losers_percentage, both 0.
C9_EmptyPercentagesZero ==
  (SummaryReturned /\ processed = <<>>) =>
    /\ "gainers_percentage" \in DOMAIN summary
    /\ "losers_percentage" \in DOMAIN summary
    /\ summary["gainers_percentage"] = Num(0)
    /\ summary["losers_percentage"] = Num(0)

\* C9 amended: the summary of the empty list is the empty dict, so it
\* carries no percentage at all, and no exception was raised; a summary
\* that carries percentages has total_coins > 0.
C9_EmptySummaryNoDivision ==
  SummaryReturned =>
    /\ processed = <<>> => (DOMAIN summary = {} /\ err = NoErr)
    /\ "gainers_percentage" \in DOMAIN summary => summary["total_coins"].n > 0

\* C9 witness: generate_market_summary has returned for the empty list
C9_Witness ==
  pc = "summarized" /\ processed = <<>> /\ supplied.ok /\ supplied.data = <<>>

(* ------------------------------- C10 ---------------------------------- *)
\* C10: on the empty batch no stage raises and each returns an empty
\* result: [] from add_enhanced_columns, process_crypto_data,
\* get_top_gainers and get_top_losers, the empty summary from
\* generate_market_summary.
C10_EmptyInEmptyOut ==
  (supplied.ok /\ supplied.data = <<>> /\ caller = "direct") =>
    /\ pc # "raised"
    /\ err = NoErr
    /\ raw_data = <<>>
    /\ processed = <<>>
    /\ top_gainers = <<>>
    /\ top_losers = <<>>
    /\ DOMAIN summary = {}
    /\ saved.done =>
         (saved.raw = <<>> /\ saved.processed = <<>> /\ saved.gainers = <<>>
          /\ saved.losers = <<>>)

\* C10 witness: the empty batch went through every stage, the Ranker with
\* the largest limit, and was saved
C10_Witness ==
  pc = "saved" /\ caller = "direct" /\ supplied.data = <<>> /\ given_limit = MaxLimit

(* ------------------------------- C11 ---------------------------------- *)
\* C11: process_crypto_data called on its own output, read back under the
\* keys it reads, returns the list it was given: the same records in the
\* same order with the same number.
C11_Idempotent ==
  Renormalized => renormalized.data = processed

\* C11 witness: the second call returned for a list that the first call
\* had to reorder and in which two records share a rank
C11_Witness ==
  /\ Renormalized
  /\ Len(processed) = MaxLen
  /\ order[1] # 1
  /\ \E i, j \in 1..Len(processed) :
       i < j /\ processed[i]["rank"] = processed[j]["rank"]

(* ------------------------------- C12 ---------------------------------- *)
\* the id of each record of a list, the records of a subset
Ids(data) == [i \in 1..Len(data) |-> data[i]["id"].s]
IdsOf(refs) == [i \in 1..Len(refs) |-> processed[refs[i]]["id"].s]

\* C12: for the batch btc (rank 1, 5.2), eth (rank 2, null), xrp (no rank,
\* -3.1) no stage raises; process_crypto_data returns btc, eth, xrp with
\* number 1, 2, 3; with a limit of at least 1 get_top_gainers returns [btc]
\* with gainer_rank 1 and get_top_losers returns [xrp] with loser_rank 1;
\* the summary counts 3 coins, 1 gainer, 1 loser and 1 neutral.
C12_Scenario ==
  supplied.data = Scenario =>
    /\ err.in \in {"none", "display"}
    /\ NormalizerReturned =>
         /\ Ids(processed) = <<<<"b", "t", "c">>, <<"e", "t", "h">>, <<"x", "r", "p">>>>
         /\ \A i \in 1..Len(processed) : processed[i]["number"] = Num(i)
    /\ (GainersReturned /\ given_limit >= 1) =>
         /\ IdsOf(top_gainers) = <<<<"b", "t", "c">>>>
         /\ processed[1]["gainer_rank"] = Num(1)
         /\ \A i \in {2, 3} : "gainer_rank" \notin DOMAIN processed[i]
    /\ (LosersReturned /\ given_limit >= 1) =>
         /\ IdsOf(top_losers) = <<<<"x", "r", "p">>>>
         /\ processed[3]["loser_rank"] = Num(1)
         /\ \A i \in {1, 2} : "loser_rank" \notin DOMAIN processed[i]
    /\ SummaryReturned =>
         /\ summary["total_coins"] = Num(3)
         /\ summary["gainers_count"] = Num(1)
         /\ summary["losers_count"] = Num(1)
         /\ summary["neutral_count"] = Num(1)

\* C12 witness: the scenario's batch went through every stage, the Ranker
\* with a limit of at least 1
C12_Witness ==
  supplied.data = Scenario /\ SummaryReturned /\ given_limit >= 1 /\ pc = "saved"

(* ------------------------------- C13 ---------------------------------- *)
\* C13: in main() only a failed fetch (None) takes the early exit, in which
\* no stage runs and nothing is saved; a fetch that returned the empty list
\* does not exit there but goes on through the stages to save_all_datasets.
C13_EmptyBatchNotAFailure ==
  caller = "main" =>
    /\ pc = "exited" => ~supplied.ok
    /\ ~supplied.ok =>
         (pc = "exited" /\ ~saved.done /\ processed = <<>> /\ summary = EmptyDict)

(* ------------------------------- C14 ---------------------------------- *)
\* C14: for a non-empty list the summary's top_gainer is a record with the
\* largest price_change_24h and, of the records with that value, the one
\* with the smallest number; top_loser is a record with the smallest
\* price_change_24h and, of those, the one with the smallest number.
C14_FirstExtreme ==
  (SummaryReturned /\ processed # <<>>) =>
    LET g == summary["top_gainer"].n
        l == summary["top_loser"].n
    IN /\ g \in 1..Len(processed)
       /\ l \in 1..Len(processed)
       /\ \A j \in 1..Len(processed) :
            /\ Change(processed[j]) <= Change(processed[g])
            /\ Change(processed[j]) >= Change(processed[l])
            /\ Change(processed[j]) = Change(processed[g]) =>
                 processed[g]["number"].n <= processed[j]["number"].n
            /\ Change(processed[j]) = Change(processed[l]) =>
                 processed[l]["number"].n <= processed[j]["number"].n

\* C14 witness: the summary of three records of which the last two tie
\* for the maximum: top_gainer is the second, top_loser the first
C14_Witness ==
  /\ pc = "summarized"
  /\ Len(processed) = 3
  /\ summary["top_gainer"].n = 2
  /\ Change(processed[3]) = Change(processed[2])
  /\ summary["top_loser"].n = 1

(* ------------------------------- C15 ---------------------------------- *)
\* C15: process_crypto_data sorts stably: of two records of its output with
\* the same rank, or both without rank, the one that comes first is the one
\* that came first in the input.
C15_StableSort ==
  NormalizerReturned =>
    /\ \A j \in 1..Len(processed) :
         /\ order[j] \in 1..Len(raw_data)
         /\ processed[j]["id"] = Get(raw_data[order[j]], "id", Str(<<>>))
         /\ processed[j]["rank"] = Get(raw_data[order[j]], "market_cap_rank", Null)
    /\ \A a, b \in 1..Len(processed) :
         (a < b /\ processed[a]["rank"] = processed[b]["rank"]) =>
           order[a] < order[b]

\* C15 witness: two records without rank ahead of a ranked one in the
\* input; process_crypto_data moved the ranked one to the front
C15_Witness ==
  /\ pc = "processed"
  /\ order = <<3, 1, 2>>
  /\ processed[2]["rank"] = Null
  /\ processed[3]["rank"] = Null

(* ------------------------------- C16 ---------------------------------- *)
Number(i) == processed[i]["number"].n
\* in the subset top, taken from the records qualifying, records with the
\* same price_change_24h stand in the order of their number, and a record
\* left out has a larger number than each record of the subset it ties with
TiesKept(top, qualifying) ==
  /\ \A a, b \in 1..Len(top) :
       (a < b /\ Change(processed[top[a]]) = Change(processed[top[b]])) =>
         Number(top[a]) < Number(top[b])
  /\ \A a \in 1..Len(top) :
       \A i \in qualifying \ {top[k] : k \in 1..Len(top)} :
         Change(processed[i]) = Change(processed[top[a]]) =>
           Number(top[a]) < Number(i)

\* C16: in the list get_top_gainers returns (sorted with reverse=True) and
\* in the list get_top_losers returns, of two records with the same
\* price_change_24h the one with the smaller number comes first, and where
\* the limit cuts through such a tie the records with the smaller number
\* are the ones kept.
C16_RankerTiesStable ==
  /\ GainersReturned => TiesKept(top_gainers, Gainers)
  /\ LosersReturned => TiesKept(top_losers, Losers)
  /\ GainersAgain => TiesKept(again.top, Gainers)
  /\ LosersAgain => TiesKept(again.top, Losers)

\* C16 witness: two gainers tie, process_crypto_data has put the second of
\* the input first, and get_top_gainers with limit 1 kept that one
C16_Witness ==
  /\ pc = "gainers"
  /\ given_limit = 1
  /\ Len(processed) >= 2
  /\ order[1] = 2
  /\ {1, 2} \subseteq Gainers
  /\ Change(processed[1]) = Change(processed[2])
  /\ top_gainers = <<1>>

(* ------------------------------- C17 ---------------------------------- *)
\* the record at position k of the subset top carries k under field
RankedByPosition(top, field) ==
  \A k \in 1..Len(top) :
    /\ field \in DOMAIN processed[top[k]]
    /\ processed[top[k]][field] = Num(k)

\* C17: the record at 0-based position i of the list get_top_gainers
\* returned carries gainer_rank i + 1, and likewise loser_rank in the list
\* get_top_losers returned, so a list of k records carries the ranks 1..k;
\* this is so for the list of a later call with another limit and, after
\* that call, still for the list the earlier call returned.
C17_RanksByPosition ==
  /\ GainersReturned => RankedByPosition(top_gainers, "gainer_rank")
  /\ LosersReturned => RankedByPosition(top_losers, "loser_rank")
  /\ GainersAgain => RankedByPosition(again.top, "gainer_rank")
  /\ LosersAgain => RankedByPosition(again.top, "loser_rank")

\* C17 witness: get_top_gainers returned two records for limit 2 and was
\* then called again with limit 1 on the same list
C17_Witness ==
  /\ pc = "reranked"
  /\ GainersAgain
  /\ Len(top_gainers) = 2
  /\ again.limit = 1
  /\ Len(again.top) = 1
  /\ Len(top_losers) >= 1

(* ------------------------------- C18 ---------------------------------- *)
\* C18: when the Ranker was given a limit of at least 1, the first record
\* of get_top_gainers' list is the summary's top_gainer if the processed
\* list has a record with price_change_24h > 0, and the first record of
\* get_top_losers' list is the summary's top_loser if it has one with
\* price_change_24h < 0: the same dict, ties for the extreme included.
C18_ExtremesAgree ==
  (SummaryReturned /\ given_limit >= 1) =>
    /\ Gainers # {} =>
         /\ top_gainers # <<>>
         /\ summary["top_gainer"] = Ref(top_gainers[1])
    /\ Losers # {} =>
         /\ top_losers # <<>>
         /\ summary["top_loser"] = Ref(top_losers[1])

\* C18 witness: a gainer followed by two losers that tie; with limit 1 the
\* Ranker returned the gainer and the first of the two losers
C18_Witness ==
  /\ pc = "summarized"
  /\ given_limit = 1
  /\ top_gainers = <<1>>
  /\ top_losers = <<2>>
  /\ Len(processed) = 3
  /\ Change(processed[3]) = Change(processed[2])

(* ------------------------------- C19 ---------------------------------- *)
\* a record of the processed list without the fields added after the
\* projection
Core(coin) ==
  [k \in (DOMAIN coin) \ {"number", "gainer_rank", "loser_rank"} |-> coin[k]]

\* the processed list is as long as the list process_crypto_data was given,
\* holds the projection of each input record as often as the input yields
\* it, and carries the numbers 1..n
PermutationOfInput ==
  LET n == Len(raw_data)
      In(i) == ProjectCoin(variant, raw_data[i])
  IN /\ Len(processed) = n
     /\ \A i \in 1..n :
          Cardinality({j \in 1..Len(processed) : Core(processed[j]) = In(i)})
            = Cardinality({k \in 1..n : In(k) = In(i)})
     /\ {processed[j]["number"].n : j \in 1..Len(processed)} = 1..n

\* C19: for every list of n records process_crypto_data returns a list of
\* n records that is a permutation of the projected input, each input
\* record giving exactly one output record, with the numbers 1..n.
C19_Permutation ==
  NormalizerActed => (err.in # "process_crypto_data" /\ PermutationOfInput)
====
